---- MODULE Spec2Model ----
(***************************************************************************)
(* A model of src/app.rs: the application built by create_app, run frame   *)
(* by frame by the host engine's schedules.                                *)
(*                                                                         *)
(* The file holds two variants of the application:                         *)
(*   "button"  the compiled code (lines 8-168): states AppState::Menu and  *)
(*             AppState::InGame, a menu UI with a "Play" button, a sprite. *)
(*   "keys"    the variant kept in the block comment (lines 170-331):      *)
(*             states ProgramState::MainMenu and ProgramState::InGame,     *)
(*             toggled with the Space key, one text spawned at Startup.    *)
(* Init chooses the variant; it never changes afterwards.                  *)
(*                                                                         *)
(* One call of app.update() (one frame) runs these schedules in order:     *)
(*   first frame only:  StateTransition, Startup                           *)
(*   every frame:       PreUpdate, StateTransition, Update                 *)
(* Each schedule is one action; commands queued by a schedule's systems    *)
(* are applied when that schedule ends, so each action includes them.      *)
(***************************************************************************)
EXTENDS Integers, Sequences, FiniteSets, TLC

VARIABLES
    variant,    \* "button" | "keys": which create_app of the file is built
    pc,         \* the schedule that runs next; "Idle" between app.update() calls
    frame,      \* number of app.update() calls started
    input,      \* the input delivered before the current frame's update
    delta,      \* Time: the frame's delta, in ticks
    moves,      \* number of frames so far in which an arrow key was held
    state,      \* State<S>: the current state
    next,       \* NextState<S>: "Unchanged" or the pending state
    ents,       \* the live entities
    nextId,     \* the id the next spawned entity gets
    menuData,   \* the MenuData resource: NoEntity (absent) or button_entity
    events,     \* every StateTransitionEvent sent so far, in order
    readTo,     \* how many events the transition schedules have read
    keyDown,    \* ButtonInput<KeyCode>: Space is in pressed
    keyJust,    \* ButtonInput<KeyCode>: Space is in just_pressed
    panic,      \* "none", or why the app panicked
    logRead,    \* how many events log_transitions has read
    log,        \* the transitions log_transitions has logged, in order
    ran,        \* the systems the latest schedule ran, in order
    pressedIn,  \* history: the state in which the latest Update saw the
                \* designated control pressed, "none" if it saw no press
    lifecycle   \* history: every system the Startup and StateTransition
                \* schedules have run so far, in order

vars == <<variant, pc, frame, input, delta, moves, state, next, ents, nextId, menuData,
          events, readTo, keyDown, keyJust, panic, logRead, log, ran,
          pressedIn, lifecycle>>

(* Bound: the number of frames (calls of app.update()) explored. *)
MaxFrames == 4

Variants == {"button", "keys"}

(* Mutant: #[default] put on InGame. *)
AppStateDefault_InGame == "InGame"

(* enum AppState { #[default] Menu, InGame } *)
AppStateDefault == "Menu"

(* enum ProgramState { #[default] MainMenu, InGame } *)
ProgramStateDefault == "MainMenu"

DefaultState(v) == IF v = "button" THEN AppStateDefault ELSE ProgramStateDefault

MenuState(v) == IF v = "button" THEN "Menu" ELSE "MainMenu"

StatesOf(v) == {MenuState(v), "InGame"}

NORMAL_BUTTON == "srgb(0.15,0.15,0.15)"
HOVERED_BUTTON == "srgb(0.25,0.25,0.25)"
PRESSED_BUTTON == "srgb(0.35,0.75,0.35)"

Interactions == {"None", "Hovered", "Pressed"}
Arrows == {"ArrowLeft", "ArrowRight", "ArrowUp", "ArrowDown"}

(* Bound: the largest frame delta, in ticks. *)
MaxDelta == 2

(* Bound: the number of frames in which an arrow key is held. *)
MaxMoves == 1

(* const SPEED: f32 = 100.0 *)
SPEED == 100
KeyEvents == {"none", "press", "release"}

NoEntity == 0

(***************************************************************************)
(* The world the systems read and write.                                   *)
(***************************************************************************)
World ==
    [state |-> state, next |-> next, ents |-> ents, nextId |-> nextId,
     menuData |-> menuData, events |-> events, keyJust |-> keyJust,
     arrows |-> input.arrows, delta |-> delta,
     panic |-> panic, logRead |-> logRead, log |-> log]

Commit(w) ==
    /\ state' = w.state
    /\ next' = w.next
    /\ ents' = w.ents
    /\ nextId' = w.nextId
    /\ menuData' = w.menuData
    /\ events' = w.events
    /\ panic' = w.panic
    /\ logRead' = w.logRead
    /\ log' = w.log

(* A coordinate is <<a, g>>, standing for the real number a + g / sqrt(2),  *)
(* in units of one tick of time: the sums of axis-aligned and of diagonal   *)
(* unit steps are kept apart, so the arithmetic is exact.                   *)
ZeroVec == [x |-> <<0, 0>>, y |-> <<0, 0>>, z |-> <<0, 0>>]

(* An entity as spawned: a button bundle carries Interaction (default None, *)
(* newly added, hence "changed") and the given background colour; the       *)
(* Transform is the default one.                                            *)
Entity(id, kind, parent) ==
    [id |-> id, kind |-> kind, parent |-> parent,
     translation |-> ZeroVec,
     interaction |-> "None",
     color |-> IF kind = "Button" THEN NORMAL_BUTTON ELSE "default",
     changed |-> (kind = "Button")]

Spawn(w, kind, parent) ==
    [w EXCEPT !.ents = @ \cup {Entity(w.nextId, kind, parent)},
              !.nextId = @ + 1]

Live(w, id) == \E e \in w.ents : e.id = id

RECURSIVE Descendants(_, _)
Descendants(es, ids) ==
    LET more == {e.id : e \in {x \in es : x.parent \in ids}} \ ids
    IN IF more = {} THEN ids ELSE Descendants(es, ids \cup more)

(***************************************************************************)
(* The systems of the "button" variant.                                    *)
(***************************************************************************)
setup(w) == Spawn(w, "Camera2d", NoEntity)

(* Mutant: commands.insert_resource(MenuData { .. }) left out. *)
setup_menu_NoResource(w) ==
    LET root == w.nextId
        w1 == Spawn(w, "Node", NoEntity)
        w2 == Spawn(w1, "Button", root)
    IN Spawn(w2, "Text", root + 1)

setup_menu(w) ==
    LET root == w.nextId
        w1 == Spawn(w, "Node", NoEntity)
        w2 == Spawn(w1, "Button", root)
        w3 == Spawn(w2, "Text", root + 1)
    IN [w3 EXCEPT !.menuData = root]

(* Query<.., (Changed<Interaction>, With<Button>)>: the buttons whose       *)
(* Interaction was added or written since menu last ran.                   *)
interaction_query(w) == {e \in w.ents : e.kind = "Button" /\ e.changed}

(* Mutant: the Hovered arm writes the normal colour. *)
MatchColor_HoverNormal(i) ==
    IF i = "Pressed" THEN PRESSED_BUTTON ELSE NORMAL_BUTTON

(* The colour each arm of `match *interaction` writes. *)
MatchColor(i) ==
    CASE i = "Pressed" -> PRESSED_BUTTON
      [] i = "Hovered" -> HOVERED_BUTTON
      [] OTHER -> NORMAL_BUTTON

(* Mutant: no arm calls next_state.set. *)
MatchSetsNext_Never(i) == FALSE

(* Mutant: the Hovered arm calls next_state.set too. *)
MatchSetsNext_OnHover(i) == i \in {"Pressed", "Hovered"}

(* The arms of `match *interaction` that call next_state.set(InGame). *)
MatchSetsNext(i) == i = "Pressed"

(* Mutant: the Hovered arm calls next_state.set(AppState::Menu). *)
menu_HoverRequestsMenu(w) ==
    LET hit == interaction_query(w)
    IN [w EXCEPT !.ents = {IF e \in hit
                           THEN [e EXCEPT !.changed = FALSE,
                                          !.color = MatchColor(e.interaction)]
                           ELSE e : e \in w.ents},
                 !.next = IF \E e \in hit : MatchSetsNext(e.interaction)
                          THEN "InGame"
                          ELSE IF \E e \in hit : e.interaction = "Hovered"
                          THEN "Menu" ELSE @]

(* Mutant: the Pressed arm writes State instead of NextState. *)
menu_WritesState(w) ==
    LET hit == interaction_query(w)
    IN [w EXCEPT !.ents = {IF e \in hit
                           THEN [e EXCEPT !.changed = FALSE,
                                          !.color = MatchColor(e.interaction)]
                           ELSE e : e \in w.ents},
                 !.state = IF \E e \in hit : MatchSetsNext(e.interaction)
                           THEN "InGame" ELSE @]

menu(w) ==
    LET hit == interaction_query(w)
    IN [w EXCEPT !.ents = {IF e \in hit
                           THEN [e EXCEPT !.changed = FALSE,
                                          !.color = MatchColor(e.interaction)]
                           ELSE e : e \in w.ents},
                 !.next = IF \E e \in hit : MatchSetsNext(e.interaction)
                          THEN "InGame" ELSE @]

(* Mutant: every entity is despawned, not only the menu's. *)
cleanup_menu_DespawnsAll(w) ==
    IF w.menuData = NoEntity THEN [w EXCEPT !.panic = "cleanup_menu: no MenuData"]
    ELSE IF ~Live(w, w.menuData)
         THEN [w EXCEPT !.panic = "cleanup_menu: no such entity"]
    ELSE [w EXCEPT !.ents = {}]

(* Mutant: despawn instead of despawn_recursive. *)
cleanup_menu_NotRecursive(w) ==
    IF w.menuData = NoEntity THEN [w EXCEPT !.panic = "cleanup_menu: no MenuData"]
    ELSE IF ~Live(w, w.menuData)
         THEN [w EXCEPT !.panic = "cleanup_menu: no such entity"]
    ELSE [w EXCEPT !.ents = {e \in @ : e.id # w.menuData}]

cleanup_menu(w) ==
    IF w.menuData = NoEntity THEN [w EXCEPT !.panic = "cleanup_menu: no MenuData"]
    ELSE IF ~Live(w, w.menuData)
         THEN [w EXCEPT !.panic = "cleanup_menu: no such entity"]
    ELSE LET gone == Descendants(w.ents, {w.menuData})
         IN [w EXCEPT !.ents = {e \in @ : e.id \notin gone}]

setup_game(w) == Spawn(w, "Sprite", NoEntity)

(* Mutant: ArrowUp and ArrowDown exchanged. *)
Direction_UpDown(keys) ==
    LET x0 == 0
        x1 == IF "ArrowLeft" \in keys THEN x0 - 1 ELSE x0
        x2 == IF "ArrowRight" \in keys THEN x1 + 1 ELSE x1
        y0 == 0
        y1 == IF "ArrowUp" \in keys THEN y0 - 1 ELSE y0
        y2 == IF "ArrowDown" \in keys THEN y1 + 1 ELSE y1
    IN [x |-> x2, y |-> y2, z |-> 0]

(* movement: the direction accumulated from the four input.pressed tests. *)
Direction(keys) ==
    LET x0 == 0
        x1 == IF "ArrowLeft" \in keys THEN x0 - 1 ELSE x0
        x2 == IF "ArrowRight" \in keys THEN x1 + 1 ELSE x1
        y0 == 0
        y1 == IF "ArrowUp" \in keys THEN y0 + 1 ELSE y0
        y2 == IF "ArrowDown" \in keys THEN y1 - 1 ELSE y1
    IN [x |-> x2, y |-> y2, z |-> 0]

(* Vec3::normalize of a non-zero direction with components in -1..1: the   *)
(* squared length is 1, 2 or 3, and each component is divided by its root. *)
(* Only lengths 1 and sqrt(2) occur (z is 0).                              *)
Normalize(d) ==
    LET lenSq == d.x * d.x + d.y * d.y + d.z * d.z
        part(c) == IF lenSq = 1 THEN <<c, 0>> ELSE <<0, c>>
    IN [x |-> part(d.x), y |-> part(d.y), z |-> part(d.z)]

Scale(v, k) ==
    [x |-> <<v.x[1] * k, v.x[2] * k>>,
     y |-> <<v.y[1] * k, v.y[2] * k>>,
     z |-> <<v.z[1] * k, v.z[2] * k>>]

Add(u, v) ==
    [x |-> <<u.x[1] + v.x[1], u.x[2] + v.x[2]>>,
     y |-> <<u.y[1] + v.y[1], u.y[2] + v.y[2]>>,
     z |-> <<u.z[1] + v.z[1], u.z[2] + v.z[2]>>]

movement(w) ==
    LET direction == Direction(w.arrows)
        move(e) ==
            IF e.kind = "Sprite" /\ direction # [x |-> 0, y |-> 0, z |-> 0]
            THEN [e EXCEPT !.translation =
                      Add(@, Scale(Normalize(direction), SPEED * w.delta))]
            ELSE e
    IN [w EXCEPT !.ents = {move(e) : e \in @}]

(* log_transitions::<AppState>: logs the last transition event not yet read. *)
log_transitions(w) ==
    IF w.logRead >= Len(w.events) THEN w
    ELSE [w EXCEPT !.log = Append(@, w.events[Len(w.events)]),
                   !.logRead = Len(w.events)]

(***************************************************************************)
(* The systems of the "keys" variant.                                      *)
(***************************************************************************)
respond_to_keys_in_game(w) ==
    IF ~w.keyJust THEN w
    ELSE IF w.state # "InGame"
         THEN [w EXCEPT !.panic = "respond_to_keys_in_game: assert_eq"]
    ELSE [w EXCEPT !.next = "MainMenu"]

respond_to_keys_in_main_menu(w) ==
    IF ~w.keyJust THEN w
    ELSE IF w.state # "MainMenu"
         THEN [w EXCEPT !.panic = "respond_to_keys_in_main_menu: assert_eq"]
    ELSE [w EXCEPT !.next = "InGame"]

add_text_in_main_menu(w) == Spawn(w, "Text2d", NoEntity)

add_text_in_game(w) == Spawn(w, "Text2d", NoEntity)

(* count_n_texts: the entities carrying a Text component. *)
count_n_texts(es) == Cardinality({e \in es : e.kind \in {"Text", "Text2d"}})

(***************************************************************************)
(* What create_app registers.                                              *)
(***************************************************************************)
StartupSystems(v) ==
    IF v = "button" THEN <<"setup">>
    ELSE <<"add_text_in_main_menu", "add_text_in_game">>

(* Mutant: the two OnEnter registrations swapped. *)
OnEnterSystems_Swapped(v, s) ==
    IF v # "button" THEN <<>>
    ELSE IF s = "Menu" THEN <<"setup_game">>
    ELSE IF s = "InGame" THEN <<"setup_menu">>
    ELSE <<>>

OnEnterSystems(v, s) ==
    IF v # "button" THEN <<>>
    ELSE IF s = "Menu" THEN <<"setup_menu">>
    ELSE IF s = "InGame" THEN <<"setup_game">>
    ELSE <<>>

(* Mutant: cleanup_menu not registered. *)
OnExitSystems_None(v, s) == <<>>

OnExitSystems(v, s) ==
    IF v = "button" /\ s = "Menu" THEN <<"cleanup_menu">> ELSE <<>>

(* Mutant: log_transitions not registered. *)
UpdateSystems_NoLog(v) ==
    IF v = "button" THEN <<"menu", "movement", "change_color">>
    ELSE <<"respond_to_keys_in_main_menu", "respond_to_keys_in_game">>

UpdateSystems(v) ==
    IF v = "button" THEN <<"menu", "movement", "change_color", "log_transitions">>
    ELSE <<"respond_to_keys_in_main_menu", "respond_to_keys_in_game">>

(* Mutant: no system has a run condition. *)
InState_Ungated(sys) == "any"

(* run_if(in_state(..)): the state a system is gated on, "any" when ungated. *)
InState(sys) ==
    CASE sys = "menu" -> "Menu"
      [] sys \in {"movement", "change_color"} -> "InGame"
      [] sys \in {"add_text_in_main_menu", "respond_to_keys_in_main_menu"} -> "MainMenu"
      [] sys \in {"add_text_in_game", "respond_to_keys_in_game"} -> "InGame"
      [] OTHER -> "any"

ShouldRun(sys, s) == InState(sys) \in {"any", s}

(* One system applied to the world, commands included. *)
RunSystem(sys, w) ==
    CASE sys = "setup" -> setup(w)
      [] sys = "setup_menu" -> setup_menu(w)
      [] sys = "menu" -> menu(w)
      [] sys = "cleanup_menu" -> cleanup_menu(w)
      [] sys = "setup_game" -> setup_game(w)
      [] sys = "movement" -> movement(w)
      [] sys = "log_transitions" -> log_transitions(w)
      [] sys = "respond_to_keys_in_game" -> respond_to_keys_in_game(w)
      [] sys = "respond_to_keys_in_main_menu" -> respond_to_keys_in_main_menu(w)
      [] sys = "add_text_in_main_menu" -> add_text_in_main_menu(w)
      [] sys = "add_text_in_game" -> add_text_in_game(w)
      [] OTHER -> w

(* The systems of seq whose run condition holds in state s. *)
Gated(seq, s) == SelectSeq(seq, LAMBDA sys : ShouldRun(sys, s))

(* The systems of seq in order; a panic stops the schedule. *)
RECURSIVE RunSystems(_, _)
RunSystems(seq, w) ==
    IF seq = <<>> \/ w.panic # "none" THEN w
    ELSE RunSystems(Tail(seq), RunSystem(Head(seq), w))

(***************************************************************************)
(* The engine's state machinery, as create_app's comments describe it.     *)
(***************************************************************************)
(* init_state::<S>(): the initial transition event, exited: None. *)
InitialEvent(v) == [exited |-> "None", entered |-> DefaultState(v)]

(* The transition step consumes a pending NextState, writes State and      *)
(* sends the StateTransitionEvent.                                         *)
apply_state_transition(w) ==
    IF w.next = "Unchanged" THEN w
    ELSE [w EXCEPT !.next = "Unchanged",
                   !.state = w.next,
                   !.events = Append(@, [exited |-> w.state, entered |-> w.next])]

(* The schedules run for the last unread transition event: "All systems    *)
(* from the exit schedule of the state we're leaving are run first, and    *)
(* then all systems from the enter schedule of the state we're entering".  *)
TransitionSystems(v, evs, read) ==
    IF read >= Len(evs) THEN <<>>
    ELSE LET e == evs[Len(evs)]
         IN IF e.exited = e.entered THEN <<>>
            ELSE OnExitSystems(v, e.exited) \o OnEnterSystems(v, e.entered)

(* keyboard_input_system: just_pressed is cleared, then the frame's event  *)
(* is applied; a press of a key already down is not "just pressed".        *)
KeyDownAfter(down, ev) ==
    CASE ev = "press" -> TRUE
      [] ev = "release" -> FALSE
      [] OTHER -> down

KeyJustAfter(down, ev) == ev = "press" /\ ~down

(* ui_focus_system: writes Interaction only when its value differs. *)
Focus(e, pointer) ==
    IF e.kind = "Button" /\ e.interaction # pointer
    THEN [e EXCEPT !.interaction = pointer, !.changed = TRUE]
    ELSE e

(***************************************************************************)
(* The state machine.                                                      *)
(***************************************************************************)
Init ==
    /\ variant \in Variants
    /\ pc = "Idle"
    /\ frame = 0
    /\ input = [pointer |-> "None", key |-> "none", arrows |-> {}]
    /\ delta = 0
    /\ moves = 0
    /\ state = DefaultState(variant)
    /\ next = "Unchanged"
    /\ ents = {}
    /\ nextId = 1
    /\ menuData = NoEntity
    /\ events = <<InitialEvent(variant)>>
    /\ readTo = 0
    /\ keyDown = FALSE
    /\ keyJust = FALSE
    /\ panic = "none"
    /\ logRead = 0
    /\ log = <<>>
    /\ ran = <<>>
    /\ pressedIn = "none"
    /\ lifecycle = <<>>

(* movement, the one system that reads the arrow keys and the frame delta,  *)
(* can run in the frame about to start: the state is, or is about to       *)
(* become, InGame.                                                         *)
MovementCanRun == variant = "button" /\ "InGame" \in {state, next}

(* app.update() is called; p, k and a are the input delivered since the    *)
(* last frame: the pointer over the button area, a Space key event, the    *)
(* arrow keys held; dt is the time since the last frame.                   *)
BeginUpdate(p, k, a, dt) ==
    /\ pc = "Idle"
    /\ panic = "none"
    /\ frame < MaxFrames
    /\ frame' = frame + 1
    /\ input' = [pointer |-> p, key |-> k, arrows |-> a]
    /\ delta' = dt
    /\ a # {} => moves < MaxMoves
    /\ moves' = IF a # {} THEN moves + 1 ELSE moves
    /\ pc' = IF frame = 0 THEN "StartupTransition" ELSE "PreUpdate"
    /\ UNCHANGED <<variant, state, next, ents, nextId, menuData, events, readTo,
                   keyDown, keyJust, panic, logRead, log, ran, pressedIn,
                   lifecycle>>

(* The designated control is pressed in this frame: the pointer presses    *)
(* the button area, or Space is just pressed.                              *)
ControlPressed ==
    IF variant = "keys" THEN keyJust ELSE input.pointer = "Pressed"

(* A StateTransition schedule, then pc moves to `after`. *)
TransitionStep(after) ==
    LET w1 == apply_state_transition(World)
        systems == TransitionSystems(variant, w1.events, readTo)
        w2 == RunSystems(systems, w1)
    IN /\ Commit(w2)
       /\ readTo' = Len(w1.events)
       /\ ran' = systems
       /\ lifecycle' = lifecycle \o systems
       /\ pc' = after
       /\ UNCHANGED <<variant, frame, input, delta, moves, keyDown, keyJust, pressedIn>>

(* The first frame's StateTransition, run before Startup. *)
StartupTransition ==
    /\ pc = "StartupTransition"
    /\ panic = "none"
    /\ TransitionStep("Startup")

Startup ==
    /\ pc = "Startup"
    /\ panic = "none"
    /\ LET systems == Gated(StartupSystems(variant), state)
       IN /\ Commit(RunSystems(systems, World))
          /\ ran' = systems
          /\ lifecycle' = lifecycle \o systems
    /\ pc' = "PreUpdate"
    /\ UNCHANGED <<variant, frame, input, delta, moves, readTo, keyDown, keyJust,
                   pressedIn>>

PreUpdate ==
    /\ pc = "PreUpdate"
    /\ panic = "none"
    /\ keyDown' = KeyDownAfter(keyDown, input.key)
    /\ keyJust' = KeyJustAfter(keyDown, input.key)
    /\ ents' = {Focus(e, input.pointer) : e \in ents}
    /\ ran' = <<>>
    /\ pc' = "StateTransition"
    /\ UNCHANGED <<variant, frame, input, delta, moves, state, next, nextId, menuData,
                   events, readTo, panic, logRead, log, pressedIn, lifecycle>>

StateTransition ==
    /\ pc = "StateTransition"
    /\ panic = "none"
    /\ TransitionStep("Update")

Update ==
    /\ pc = "Update"
    /\ panic = "none"
    /\ LET systems == Gated(UpdateSystems(variant), state)
       IN /\ Commit(RunSystems(systems, World))
          /\ ran' = systems
    /\ pc' = "Idle"
    /\ pressedIn' = IF ControlPressed THEN state ELSE "none"
    /\ UNCHANGED <<variant, frame, input, delta, moves, readTo, keyDown, keyJust,
                   lifecycle>>

Next ==
    \/ /\ pc = "Idle"
       /\ \E p \in Interactions, k \in KeyEvents, a \in SUBSET Arrows,
             dt \in 0..MaxDelta :
             /\ variant = "button" => k = "none"
             /\ variant = "keys" => p = "None"
             /\ ~MovementCanRun => a = {} /\ dt = 0
             /\ BeginUpdate(p, k, a, dt)
    \/ StartupTransition
    \/ Startup
    \/ PreUpdate
    \/ StateTransition
    \/ Update

Spec == Init /\ [][Next]_vars

(***************************************************************************)
(* Observations used by the properties.                                    *)
(***************************************************************************)
Range(seq) == {seq[i] : i \in 1..Len(seq)}

NoInput == [pointer |-> "None", key |-> "none", arrows |-> {}]

MenuUI(es) == {e \in es : e.kind \in {"Node", "Button", "Text"}}

Sprites(es) == {e \in es : e.kind = "Sprite"}

Buttons(es) == {e \in es : e.kind = "Button"}

(***************************************************************************)
(* C1: the application starts in state Menu: as long as no next-state      *)
(* request has been reconciled (only the initial transition event exists), *)
(* and in particular through the whole first update cycle, the current     *)
(* state is the menu state.                                                *)
(***************************************************************************)
C1_StartsAtMenu ==
    (Len(events) = 1 \/ frame <= 1) => state = MenuState(variant)

C1_Witness ==
    /\ variant = "button"
    /\ pc = "Idle"
    /\ frame = 1
    /\ input = NoInput
    /\ state = "Menu"
    /\ Len(events) = 1

(***************************************************************************)
(* C2 as stated: a press of the designated control seen by a frame's       *)
(* Update makes the state the other one at the next frame's transition     *)
(* step, in both directions.                                               *)
(***************************************************************************)
C2_BothDirections ==
    pc = "Update" =>
        /\ pressedIn = MenuState(variant) => state = "InGame"
        /\ pressedIn = "InGame" => state = MenuState(variant)

(***************************************************************************)
(* C2 amended: a press seen while in the menu state makes the state InGame *)
(* at the next frame's transition step; a press seen while InGame makes    *)
(* the state MainMenu again only in the "keys" variant, and leaves the     *)
(* state InGame in the "button" variant, which has no way back.            *)
(***************************************************************************)
C2_PressTransitions ==
    pc = "Update" =>
        /\ pressedIn = MenuState(variant) => state = "InGame"
        /\ (variant = "keys" /\ pressedIn = "InGame") => state = "MainMenu"
        /\ (variant = "button" /\ pressedIn = "InGame") => state = "InGame"

C2_Witness ==
    /\ variant = "keys"
    /\ pc = "Update"
    /\ pressedIn = "InGame"
    /\ state = "MainMenu"
    /\ Len(events) = 3

(***************************************************************************)
(* C3 as stated (test_app_starts_game): after one update cycle in the menu *)
(* state, with the press delivered, one further update cycle ends with the *)
(* current state reading InGame.                                           *)
(***************************************************************************)
C3_InGameAfterOneUpdate ==
    (pc = "Idle" /\ frame = 2 /\ pressedIn = MenuState(variant))
        => state = "InGame"

(***************************************************************************)
(* C4: the current state changes only in the per-frame StateTransition     *)
(* step and only when a next-state request is pending: the step consumes   *)
(* the request, makes the requested state current and sends exactly one    *)
(* transition event, exited = the state before, entered = the state after; *)
(* no other step changes the state or sends an event, and there is at most *)
(* one transition per frame.                                               *)
(***************************************************************************)
C4_StateChangesOnlyInTransitionStep ==
    /\ [](Len(events) <= (IF frame = 0 THEN 1 ELSE frame))
    /\ [][/\ state' # state =>
                /\ pc = "StateTransition"
                /\ next # "Unchanged"
                /\ state' = next
                /\ next' = "Unchanged"
                /\ events' = Append(events, [exited |-> state, entered |-> state'])
          /\ events' # events => state' # state
          /\ (pc \in {"StateTransition", "StartupTransition"} /\ next # "Unchanged")
                => (next' = "Unchanged" /\ state' = next)
         ]_vars

C4_Witness ==
    /\ variant = "button"
    /\ pc = "Update"
    /\ frame = 2
    /\ state = "InGame"
    /\ next = "Unchanged"
    /\ events = <<InitialEvent("button"), [exited |-> "Menu", entered |-> "InGame"]>>

(***************************************************************************)
(* C5: in the "button" variant, at the end of every update cycle a menu UI *)
(* entity (root node, button, text) exists only if the state is Menu and   *)
(* the sprite exists only if the state is InGame; once the state is InGame *)
(* (Menu has been exited) no menu UI entity is left.                       *)
(***************************************************************************)
C5_EntitiesOnlyInOwningState ==
    variant = "button" =>
        /\ pc = "Idle" =>
              /\ MenuUI(ents) # {} => state = "Menu"
              /\ Sprites(ents) # {} => state = "InGame"
        /\ state = "InGame" => Cardinality(MenuUI(ents)) = 0

C5_Witness ==
    /\ variant = "button"
    /\ pc = "Idle"
    /\ state = "InGame"
    /\ Cardinality(Sprites(ents)) = 1
    /\ MenuUI(ents) = {}

(***************************************************************************)
(* C6: before the first update cycle no text entity exists; at the end of  *)
(* the first update cycle exactly one exists, and in the "button" variant  *)
(* setup_menu has run exactly once: one root node, one button, one text,   *)
(* the root recorded in MenuData.                                          *)
(***************************************************************************)
C6_OneTextAfterFirstUpdate ==
    /\ frame = 0 => count_n_texts(ents) = 0
    /\ (pc = "Idle" /\ frame = 1) =>
          /\ count_n_texts(ents) = 1
          /\ variant = "button" =>
                /\ Cardinality(MenuUI(ents)) = 3
                /\ \E e \in ents : e.id = menuData /\ e.kind = "Node"

C6_Witness ==
    /\ pc = "Idle"
    /\ frame = 1
    /\ input = NoInput
    /\ count_n_texts(ents) = 1
    /\ \E e \in ents : e.kind = "Text" /\ e.parent # NoEntity

(***************************************************************************)
(* C7: in a transition step the exit systems run before the enter systems: *)
(* setup_game runs only in a step in which cleanup_menu ran before it, so  *)
(* no Update phase starts with both menu UI and sprite present, nor in     *)
(* state InGame with menu UI left.                                         *)
(***************************************************************************)
C7_ExitBeforeEnter ==
    /\ \A j \in 1..Len(ran) :
          ran[j] = "setup_game" => \E i \in 1..(j - 1) : ran[i] = "cleanup_menu"
    /\ pc = "Update" =>
          /\ ~(MenuUI(ents) # {} /\ Sprites(ents) # {})
          /\ (variant = "button" /\ state = "InGame") => MenuUI(ents) = {}

C7_Witness ==
    /\ pc = "Update"
    /\ ran = <<"cleanup_menu", "setup_game">>
    /\ state = "InGame"
    /\ Sprites(ents) # {}

(***************************************************************************)
(* C8: the Update schedule runs a gated system only in a frame whose       *)
(* current state is the system's own, and so the handlers' assert_eq on    *)
(* the current state never fails (the app never panics).                   *)
(***************************************************************************)
C8_UpdateSystemsGated ==
    /\ panic = "none"
    /\ (pc = "Idle" /\ frame >= 1) =>
          /\ "menu" \in Range(ran) => state = "Menu"
          /\ "movement" \in Range(ran) => state = "InGame"
          /\ "change_color" \in Range(ran) => state = "InGame"
          /\ "respond_to_keys_in_main_menu" \in Range(ran) => state = "MainMenu"
          /\ "respond_to_keys_in_game" \in Range(ran) => state = "InGame"

C8_Witness ==
    /\ variant = "keys"
    /\ pc = "Idle"
    /\ ran = <<"respond_to_keys_in_game">>
    /\ keyJust
    /\ next = "MainMenu"
    /\ panic = "none"

(***************************************************************************)
(* C9: when menu runs, it requests a state change if and only if a changed *)
(* button interaction is Pressed, and then it requests InGame; otherwise   *)
(* the pending request is left as it was; the current state is unchanged.  *)
(***************************************************************************)
C9_RequestIffPressed ==
    [][(pc = "Update" /\ "menu" \in Range(ran')) =>
          /\ state' = state
          /\ IF \E e \in Buttons(ents) : e.changed /\ e.interaction = "Pressed"
             THEN next' = "InGame"
             ELSE next' = next
      ]_vars

C9_Witness ==
    /\ variant = "button"
    /\ pc = "Idle"
    /\ frame >= 2
    /\ state = "Menu"
    /\ next = "InGame"
    /\ \E e \in Buttons(ents) : e.interaction = "Pressed" /\ ~e.changed

(***************************************************************************)
(* C10: when menu runs, every button whose interaction changed gets        *)
(* PRESSED_BUTTON for Pressed, HOVERED_BUTTON for Hovered and              *)
(* NORMAL_BUTTON for None, every other button keeps its colour, and a      *)
(* newly spawned button has NORMAL_BUTTON.                                 *)
(***************************************************************************)
C10_ButtonColors ==
    [][/\ (pc = "Update" /\ "menu" \in Range(ran')) =>
             \A e \in Buttons(ents) : \E f \in Buttons(ents') :
                 /\ f.id = e.id
                 /\ f.color =
                      IF ~e.changed THEN e.color
                      ELSE IF e.interaction = "Pressed" THEN PRESSED_BUTTON
                      ELSE IF e.interaction = "Hovered" THEN HOVERED_BUTTON
                      ELSE NORMAL_BUTTON
       /\ \A f \in Buttons(ents') :
             (\A e \in ents : e.id # f.id) => f.color = NORMAL_BUTTON
      ]_vars

C10_Witness ==
    /\ variant = "button"
    /\ pc = "Idle"
    /\ frame >= 3
    /\ \E e \in Buttons(ents) : e.interaction = "Hovered" /\ e.color = HOVERED_BUTTON

(***************************************************************************)
(* C11: when movement runs, the direction is x = (ArrowRight held) minus   *)
(* (ArrowLeft held), y = (ArrowUp held) minus (ArrowDown held); with a     *)
(* zero direction every sprite keeps its translation, otherwise the        *)
(* translation changes by the normalized direction times SPEED times the   *)
(* frame delta (a diagonal direction moves x and y by 1/sqrt(2) each);     *)
(* z never changes.                                                        *)
(***************************************************************************)
C11_Movement ==
    [][(pc = "Update" /\ "movement" \in Range(ran')) =>
          LET held(k) == IF k \in input.arrows THEN 1 ELSE 0
              dx == held("ArrowRight") - held("ArrowLeft")
              dy == held("ArrowUp") - held("ArrowDown")
              step == SPEED * delta
              by(c) == IF dx # 0 /\ dy # 0 THEN <<0, c * step>> ELSE <<c * step, 0>>
          IN \A e \in Sprites(ents) : \E f \in Sprites(ents') :
                /\ f.id = e.id
                /\ f.translation.z = e.translation.z
                /\ IF dx = 0 /\ dy = 0
                   THEN f.translation = e.translation
                   ELSE /\ f.translation.x[1] = e.translation.x[1] + by(dx)[1]
                        /\ f.translation.x[2] = e.translation.x[2] + by(dx)[2]
                        /\ f.translation.y[1] = e.translation.y[1] + by(dy)[1]
                        /\ f.translation.y[2] = e.translation.y[2] + by(dy)[2]
      ]_vars

C11_Witness ==
    /\ pc = "Idle"
    /\ "movement" \in Range(ran)
    /\ input.arrows = {"ArrowLeft", "ArrowRight", "ArrowUp"}
    /\ delta = 2
    /\ \E e \in Sprites(ents) :
          e.translation = [x |-> <<0, 0>>, y |-> <<2 * SPEED, 0>>, z |-> <<0, 0>>]

(***************************************************************************)
(* C12: in the "button" variant log_transitions runs in every frame's      *)
(* Update whatever the state; at the end of every frame the log holds      *)
(* every transition event sent so far exactly once and in order (none      *)
(* dropped, none logged twice), and at most one entry is logged per frame. *)
(***************************************************************************)
C12_EveryTransitionLoggedOnce ==
    variant = "button" =>
        /\ Len(log) <= Len(events)
        /\ \A i \in 1..Len(log) : log[i] = events[i]
        /\ Len(log) <= frame
        /\ (pc = "Idle" /\ frame >= 1) =>
              /\ "log_transitions" \in Range(ran)
              /\ log = events

C12_Witness ==
    /\ variant = "button"
    /\ pc = "Idle"
    /\ state = "InGame"
    /\ log = <<InitialEvent("button"), [exited |-> "Menu", entered |-> "InGame"]>>
    /\ logRead = 2

(***************************************************************************)
(* C13: whenever cleanup_menu runs, the MenuData resource exists and its   *)
(* button_entity is the live root node that setup_menu spawned, so         *)
(* cleanup_menu never panics on a missing resource or a missing entity.    *)
(***************************************************************************)
C13_CleanupFindsMenuData ==
    /\ [](panic \notin {"cleanup_menu: no MenuData", "cleanup_menu: no such entity"})
    /\ [][("cleanup_menu" \in Range(ran')) =>
             /\ menuData # NoEntity
             /\ \E e \in ents :
                   e.id = menuData /\ e.kind = "Node" /\ e.parent = NoEntity
             /\ \E i \in 1..Len(lifecycle) : lifecycle[i] = "setup_menu"
             /\ panic' = "none"
         ]_vars

C13_Witness ==
    /\ pc = "Update"
    /\ "cleanup_menu" \in Range(ran)
    /\ panic = "none"
    /\ menuData # NoEntity
    /\ \A e \in ents : e.id # menuData

(***************************************************************************)
(* C14: in the "button" variant setup_menu, cleanup_menu and setup_game    *)
(* each run at most once and in that order, so at most one menu UI tree    *)
(* and one sprite are ever spawned (at most five entities in all, the      *)
(* camera included), and no transition re-enters the state it exits.       *)
(***************************************************************************)
C14_LifecycleRunsOnce ==
    variant = "button" =>
        /\ LET once == SelectSeq(lifecycle,
                          LAMBDA sys : sys \in {"setup_menu", "cleanup_menu", "setup_game"})
           IN \E n \in 0..3 :
                 once = SubSeq(<<"setup_menu", "cleanup_menu", "setup_game">>, 1, n)
        /\ Cardinality({e \in ents : e.kind = "Node"}) <= 1
        /\ Cardinality(Sprites(ents)) <= 1
        /\ nextId <= 6
        /\ \A i \in 1..Len(events) : events[i].exited # events[i].entered
        /\ Len(events) <= 2

C14_Witness ==
    /\ variant = "button"
    /\ frame = MaxFrames
    /\ pc = "Idle"
    /\ lifecycle = <<"setup_menu", "setup", "cleanup_menu", "setup_game">>
    /\ nextId = 6

(***************************************************************************)
(* C15: the step in which cleanup_menu runs removes exactly the menu root  *)
(* and its descendants (root node, button, text) and leaves MenuData as it *)
(* was; once Startup has run, the one camera entity exists ever after;     *)
(* in state InGame MenuData holds a stale entity and cleanup_menu, its     *)
(* only reader, does not run again.                                        *)
(***************************************************************************)
C15_CleanupRemovesOnlyMenu ==
    /\ [](variant = "button" =>
            /\ (frame >= 1 /\ pc \notin {"StartupTransition", "Startup"}) =>
                  Cardinality({e \in ents : e.kind = "Camera2d"}) = 1
            /\ state = "InGame" =>
                  (menuData # NoEntity /\ \A e \in ents : e.id # menuData))
    /\ [][/\ ("cleanup_menu" \in Range(ran')) =>
                /\ MenuUI(ents) = {e \in ents : e.id \in Descendants(ents, {menuData})}
                /\ Cardinality(MenuUI(ents)) = 3
                /\ {e \in ents' : e.kind # "Sprite"} = ents \ MenuUI(ents)
                /\ menuData' = menuData
          /\ state = "InGame" => "cleanup_menu" \notin Range(ran')
         ]_vars

C15_Witness ==
    /\ variant = "button"
    /\ pc = "Idle"
    /\ state = "InGame"
    /\ menuData = 1
    /\ {e.kind : e \in ents} = {"Camera2d", "Sprite"}

====
